---- MODULE Spec2Model ----
(***************************************************************************)
(* Authentication and session security of the SAI backend.                 *)
(*                                                                         *)
(*   src/src/models/authentication.rs  the credential store (one row of    *)
(*                                     the authentications table per       *)
(*                                     account) and its lockout counter    *)
(*   src/src/routes/auth.rs            token issue / validation, login,    *)
(*                                     logout and the token blacklist      *)
(*   src/src/routes/admin.rs           the AdminGuard                      *)
(*                                                                         *)
(* Time is counted in whole hours: every duration the code uses is a whole *)
(* number of hours (1 h access token, 24 h reset token, 24 h blacklist     *)
(* entry), and the clock `now` advances one hour per Tick.                 *)
(***************************************************************************)
EXTENDS Integers, Sequences, FiniteSets, TLC

VARIABLES
    now,              \* Utc::now() / SQL now(), in hours
    authentications,  \* the table: user id -> row (struct Authentication)
    held,             \* caller -> the Authentication value it holds (&self)
    uuids,            \* number of Uuid::new_v4() values drawn so far
    last,             \* the call just made: name, arguments, result, row before
    streak,           \* run of failed record_login_attempt calls chained on returned values
    consumed,         \* the reset token values that a lookup has found
    failures,         \* failed record_login_attempt calls completed since the last successful one
    issued,           \* token generate_token returned -> token_version of its account then
    token_blacklist,  \* Auth.token_blacklist: token -> expiry
    resp,             \* the HTTP response of the handler that just ran
    request,          \* the HTTP request the handler or guard that just ran was given
    admitted,         \* the result of the AdminGuard check that just ran, if one did
    refresh_tokens,   \* the refresh tokens the handlers have returned so far
    logouts           \* the logout calls in progress and the blacklist mutex they share

storeVars == <<authentications, held, last, streak, consumed, failures>>
authVars == <<issued, token_blacklist, resp, request, admitted, refresh_tokens, logouts>>
vars == <<now, uuids, storeVars, authVars>>

----------------------------------------------------------------------------
(* Program constants *)

\* const MAX_FAILED_ATTEMPTS: i32 = 5;
MAX_FAILED_ATTEMPTS == 5

\* chrono::Duration::hours(24) of generate_reset_token
RESET_TOKEN_HOURS == 24

\* Utc::now() + Duration::hours(1) of generate_token
ACCESS_TOKEN_HOURS == 1

\* Utc::now() + Duration::hours(24) of logout
BLACKLIST_HOURS == 24

\* if blacklist.len() % 100 == 0
CLEANUP_EVERY == 100

\* time::Duration::hours(1) of the auth_token cookie
COOKIE_HOURS == 1

(* Bounds of the model *)

\* failed_attempts is not incremented past this value
MaxFailed == 6
\* an AuthenticationUpdate has at most this many fields present
MaxUpdateFields == 1
\* lockout specification: token_version, uuids drawn and the clock stop here
MaxVersionCred == 1
MaxUuidsCred == 1
MaxNowCred == 1
\* reset-token specification: uuids drawn and the clock stop here
MaxUuidsReset == 2
MaxNowReset == 25
\* session specification: token_version, uuids drawn, the clock and the
\* number of blacklist entries stop here
MaxVersionAuth == 1
MaxUuidsAuth == 2
MaxNowAuth == 2
MaxBlacklist == 1
\* guard specification: uuids drawn and the clock stop here
MaxUuidsGuard == 3
MaxNowGuard == 2
\* password specification: uuids drawn and the clock stop here
MaxUuidsPwd == 1
MaxNowPwd == 1
\* sweep specification: uuids drawn, the clock and the number of blacklist
\* entries stop here; logins and logouts happen up to hour MaxActiveHour
MaxActiveHour == 1
MaxUuidsSweep == 1
MaxNowSweep == 25
MaxBlacklistSweep == 2
\* concurrent logouts: the calls begun stop here
MaxLogouts == 2
\* number of callers that hold a credential concurrently
NumCallers == 2

----------------------------------------------------------------------------
(* Option<T>: None, Some(x) *)

None == << >>
Some(x) == << x >>
IsSome(o) == o # None
Unwrap(o) == o[1]

\* SQL COALESCE($n, column)
COALESCE(a, b) == IF a # None THEN a ELSE b

----------------------------------------------------------------------------
(* Inputs *)

\* the single account of the model (login issues tokens for user "1")
UserIds == {1}
Callers == 1 .. NumCallers
\* the caller of the sequential specifications
Caller0 == 1
Passwords == {"password", "newpass"}

\* bcrypt::hash: a one-way image of the password
bcrypt_hash(password) == << "bcrypt", password >>

\* bcrypt::verify(password, hash).unwrap_or(false)
verify_password(self, password) == self.password_hash = bcrypt_hash(password)

\* pub fn is_account_locked(&self) -> bool
is_account_locked(self) == self.is_locked

----------------------------------------------------------------------------
(* The call just made: op and caller, the success argument, whether it returned
   Ok, the reset token passed or returned, the lockout state of the row before
   it, and whether the reset token had been found by an earlier lookup *)

Call(op, c, success, ok, tok, pre) ==
    [op |-> op, caller |-> c, success |-> success, ok |-> ok, tok |-> tok, pre |-> pre,
     seen |-> FALSE]

\* what a call keeps of the row it found: its lockout state
Before(row) == Some([is_locked |-> row.is_locked, failed_attempts |-> row.failed_attempts])

NoCall == Call("none", 0, FALSE, FALSE, None, None)

NoStreak == [n |-> 0, by |-> 0]

\* an HTTP response: the handler, the status, the error code of an
\* ErrorResponse, the token and refresh_token of an AuthResponse, the cookie
\* set, and the username the request named
Response(op, status, error, username, token, refresh_token, cookie) ==
    [op |-> op, status |-> status, error |-> error, username |-> username,
     token |-> token, refresh_token |-> refresh_token, cookie |-> cookie,
     message |-> "", user_id |-> 0, role |-> ""]

NoResp == Response("none", 0, "", "", None, None, None)

\* the JSON body of a request: the fields of LoginRequest, RegisterRequest,
\* PasswordResetRequest, PasswordUpdateRequest and RefreshTokenRequest
Body(username, password, email, token, new_password, confirm_password, refresh_token) ==
    [username |-> username, password |-> password, email |-> email, token |-> token,
     new_password |-> new_password, confirm_password |-> confirm_password,
     refresh_token |-> refresh_token]

NoBody == Body("", "", "", None, "", "", None)

\* a request as a handler sees it: the Authorization header, the auth_token
\* cookie and the body
HttpRequest(authorization, cookie, body) ==
    [authorization |-> authorization, cookie |-> cookie, body |-> body]

NoRequest == HttpRequest(None, None, NoBody)

\* a call of the credential store is no HTTP exchange
NoHttp ==
    /\ resp' = NoResp
    /\ request' = NoRequest
    /\ admitted' = None
    /\ UNCHANGED logouts
    /\ UNCHANGED refresh_tokens

----------------------------------------------------------------------------
(* Credential store: src/src/models/authentication.rs *)

\* INSERT INTO authentications (...) VALUES ($1, $2, 0, false, 0); the id is
\* the user id, and created_at and updated_at, which no operation reads, are
\* left out of the row
NewRow(user_id, password) ==
    [ user_id             |-> user_id,
      password_hash       |-> bcrypt_hash(password),
      reset_token         |-> None,
      reset_token_expires |-> None,
      token_version       |-> 0,
      last_login          |-> None,
      is_locked           |-> FALSE,
      failed_attempts     |-> 0 ]

\* the Authentication value a caller holds, as far as its methods read it:
\* the id (every WHERE id = $n), failed_attempts (record_login_attempt),
\* is_locked (is_account_locked) and password_hash (verify_password)
Self(row) ==
    [ user_id         |-> row.user_id,
      password_hash   |-> row.password_hash,
      is_locked       |-> row.is_locked,
      failed_attempts |-> row.failed_attempts ]

\* Authentication::create
create(c, user_id, password) ==
    /\ user_id \notin DOMAIN authentications
    /\ LET row == NewRow(user_id, password) IN
         /\ authentications' = (user_id :> row) @@ authentications
         /\ held' = (c :> Self(row)) @@ held
         /\ last' = Call("create", c, FALSE, TRUE, None, None)
    /\ streak' = NoStreak
    /\ failures' = 0
    /\ NoHttp
    /\ UNCHANGED <<now, uuids, consumed, issued, token_blacklist>>

\* Authentication::find_by_user_id
find_by_user_id(c, user_id) ==
    /\ user_id \in DOMAIN authentications
    /\ held' = (c :> Self(authentications[user_id])) @@ held
    /\ last' = Call("find_by_user_id", c, FALSE, TRUE, None, Before(authentications[user_id]))
    /\ streak' = IF streak.by = c THEN NoStreak ELSE streak
    /\ NoHttp
    /\ UNCHANGED <<now, authentications, uuids, consumed, failures, issued, token_blacklist>>

\* the SET clause of the successful branch of record_login_attempt
LoginSucceededKeepsLock(row, t) ==
    [row EXCEPT !.last_login = Some(t), !.failed_attempts = 0]
LoginSucceededRow(row, t) ==
    [row EXCEPT !.last_login = Some(t),
                !.failed_attempts = 0,
                !.is_locked = FALSE]

\* let is_locked = new_failed_attempts >= MAX_FAILED_ATTEMPTS;
LockedAtOffByOne(new_failed_attempts) == new_failed_attempts > MAX_FAILED_ATTEMPTS
LockedAt(new_failed_attempts) == new_failed_attempts >= MAX_FAILED_ATTEMPTS

\* the failed branch of record_login_attempt: the count comes from self, the
\* value the caller holds, and is written over the row's
LoginFailedRow(row, self) ==
    LET new_failed_attempts == self.failed_attempts + 1 IN
    [row EXCEPT !.failed_attempts = new_failed_attempts,
                !.is_locked = LockedAt(new_failed_attempts)]

\* the run of failed calls, each applied to the value the previous one returned
StreakAfterFailure(c) ==
    IF streak.n > 0 /\ streak.by = c THEN [n |-> streak.n + 1, by |-> c]
    ELSE IF held[c].failed_attempts = 0 /\ ~held[c].is_locked THEN [n |-> 1, by |-> c]
    ELSE NoStreak

\* Authentication::record_login_attempt
record_login_attempt(c, success) ==
    /\ c \in DOMAIN held
    /\ held[c].user_id \in DOMAIN authentications
    /\ LET id  == held[c].user_id
           old == authentications[id]
           new == IF success THEN LoginSucceededRow(old, now)
                             ELSE LoginFailedRow(old, held[c])
       IN /\ authentications' = [authentications EXCEPT ![id] = new]
          /\ held' = [held EXCEPT ![c] = Self(new)]
          /\ last' = Call("record_login_attempt", c, success, TRUE, None, Before(old))
    /\ streak' = IF success THEN NoStreak ELSE StreakAfterFailure(c)
    /\ failures' = IF success THEN 0 ELSE failures + 1
    /\ NoHttp
    /\ UNCHANGED <<now, uuids, consumed, issued, token_blacklist>>

\* the fields of AuthenticationUpdate
UpdateFields ==
    {"password", "reset_token", "reset_token_expires", "token_version",
     "last_login", "is_locked", "failed_attempts"}

\* a reset token value chosen by the caller of update (not a drawn uuid)
CallerToken == 0

\* the AuthenticationUpdate values tried at time t: every field absent or one of
\* a few values, at most MaxUpdateFields of them present
UpdateInputs(t) ==
    { u \in [ password            : {None, Some("newpass")},
              reset_token         : {None, Some(CallerToken)},
              reset_token_expires : {None, Some(t + 1)},
              token_version       : {None, Some(0)},
              last_login          : {None, Some(t)},
              is_locked           : {None, Some(TRUE), Some(FALSE)},
              failed_attempts     : {None, Some(0), Some(MAX_FAILED_ATTEMPTS)} ] :
        Cardinality({f \in UpdateFields : u[f] # None}) <= MaxUpdateFields }

\* the updates whose present fields are among fields
UpdateInputsOf(fields, t) ==
    { u \in UpdateInputs(t) : \A f \in UpdateFields \ fields : u[f] = None }

\* the SET clause of update: every column COALESCEs its parameter
UpdatedRow(row, u) ==
    [row EXCEPT
        !.password_hash       = IF u.password # None
                                THEN bcrypt_hash(Unwrap(u.password)) ELSE @,
        !.reset_token         = COALESCE(u.reset_token, @),
        !.reset_token_expires = COALESCE(u.reset_token_expires, @),
        !.token_version       = IF u.token_version # None THEN Unwrap(u.token_version) ELSE @,
        !.last_login          = COALESCE(u.last_login, @),
        !.is_locked           = IF u.is_locked # None THEN Unwrap(u.is_locked) ELSE @,
        !.failed_attempts     = IF u.failed_attempts # None
                                THEN Unwrap(u.failed_attempts) ELSE @]

\* Authentication::update
update(c, u) ==
    /\ c \in DOMAIN held
    /\ held[c].user_id \in DOMAIN authentications
    /\ LET id  == held[c].user_id
           old == authentications[id]
           new == UpdatedRow(old, u)
       IN /\ authentications' = [authentications EXCEPT ![id] = new]
          /\ held' = [held EXCEPT ![c] = Self(new)]
          /\ last' = Call("update", c, FALSE, TRUE, None, Before(old))
    /\ streak' = IF streak.by = c THEN NoStreak ELSE streak
    /\ NoHttp
    /\ UNCHANGED <<now, uuids, consumed, failures, issued, token_blacklist>>

\* a SET clause that leaves a reset token the row already has in place
KeepsEarlierToken(row, reset_token, t) ==
    [row EXCEPT !.reset_token = IF row.reset_token = None THEN Some(reset_token)
                                ELSE row.reset_token,
                !.reset_token_expires = Some(t + RESET_TOKEN_HOURS)]

\* the SET clause of generate_reset_token
ResetTokenRow(row, reset_token, t) ==
    [row EXCEPT !.reset_token = Some(reset_token),
                !.reset_token_expires = Some(t + RESET_TOKEN_HOURS)]

\* Authentication::generate_reset_token: the token is a fresh uuid, returned
\* to the caller; self is not replaced
generate_reset_token(c) ==
    /\ c \in DOMAIN held
    /\ held[c].user_id \in DOMAIN authentications
    /\ LET id  == held[c].user_id
           old == authentications[id]
           reset_token == uuids + 1
       IN /\ uuids' = uuids + 1
          /\ authentications' =
                [authentications EXCEPT ![id] = ResetTokenRow(old, reset_token, now)]
          /\ last' = Call("generate_reset_token", c, FALSE, TRUE, Some(reset_token), Before(old))
    /\ NoHttp
    /\ UNCHANGED <<now, held, streak, consumed, failures, issued, token_blacklist>>

\* the SET clause of clear_reset_token
ClearedRow(row) ==
    [row EXCEPT !.reset_token = None, !.reset_token_expires = None]

\* Authentication::clear_reset_token
clear_reset_token(c) ==
    /\ c \in DOMAIN held
    /\ held[c].user_id \in DOMAIN authentications
    /\ LET id  == held[c].user_id
           old == authentications[id]
       IN /\ authentications' = [authentications EXCEPT ![id] = ClearedRow(old)]
          /\ last' = Call("clear_reset_token", c, FALSE, TRUE, None, Before(old))
    /\ NoHttp
    /\ UNCHANGED <<now, held, uuids, streak, consumed, failures, issued, token_blacklist>>

\* a SET clause that also clears the failure count
BumpedRowResetsCount(row) ==
    [row EXCEPT !.token_version = @ + 1, !.failed_attempts = 0]

\* the SET clause of increment_token_version
BumpedRow(row) ==
    [row EXCEPT !.token_version = @ + 1]

\* Authentication::increment_token_version
increment_token_version(c) ==
    /\ c \in DOMAIN held
    /\ held[c].user_id \in DOMAIN authentications
    /\ LET id  == held[c].user_id
           old == authentications[id]
           new == BumpedRow(old)
       IN /\ authentications' = [authentications EXCEPT ![id] = new]
          /\ held' = [held EXCEPT ![c] = Self(new)]
          /\ last' = Call("increment_token_version", c, FALSE, TRUE, None, Before(old))
    /\ streak' = IF streak.by = c THEN NoStreak ELSE streak
    /\ NoHttp
    /\ UNCHANGED <<now, uuids, consumed, failures, issued, token_blacklist>>

\* a WHERE clause with reset_token_expires >= now()
MatchesAtExpiry(row, reset_token, t) ==
    /\ row.reset_token = Some(reset_token)
    /\ row.reset_token_expires # None
    /\ Unwrap(row.reset_token_expires) >= t

\* WHERE reset_token = $1 AND reset_token_expires > now(); a NULL column
\* satisfies neither comparison
ResetTokenMatches(row, reset_token, t) ==
    /\ row.reset_token = Some(reset_token)
    /\ row.reset_token_expires # None
    /\ Unwrap(row.reset_token_expires) > t

\* the rows the SELECT of find_by_reset_token returns
ResetTokenRows(reset_token, t) ==
    { id \in DOMAIN authentications :
        ResetTokenMatches(authentications[id], reset_token, t) }

\* Authentication::find_by_reset_token: fetch_one fails when no row matches
find_by_reset_token(c, reset_token) ==
    /\ LET rows == ResetTokenRows(reset_token, now) IN
       IF rows = {}
       THEN /\ last' = Call("find_by_reset_token", c, FALSE, FALSE, Some(reset_token), None)
            /\ UNCHANGED <<held, streak, consumed>>
       ELSE LET id == CHOOSE r \in rows : TRUE IN
            /\ held' = (c :> Self(authentications[id])) @@ held
            /\ last' = [Call("find_by_reset_token", c, FALSE, TRUE, Some(reset_token),
                             Before(authentications[id]))
                          EXCEPT !.seen = reset_token \in consumed]
            /\ streak' = IF streak.by = c THEN NoStreak ELSE streak
            /\ consumed' = consumed \cup {reset_token}
    /\ NoHttp
    /\ UNCHANGED <<now, authentications, uuids, failures, issued, token_blacklist>>

----------------------------------------------------------------------------
(* Tokens: src/src/routes/auth.rs *)

\* std::env::var("JWT_SECRET"), or "your-secret-key"
JWT_SECRET == "JWT_SECRET"

\* the user id and role login issues tokens for
ADMIN_USER == 1
ADMIN_ROLE == "admin"

\* encode(&Header::default(), &claims, &EncodingKey::from_secret(key)): the
\* claims with an HS256 signature under key
encode(claims, key) ==
    [ fmt |-> "jwt", sub |-> claims.sub, role |-> claims.role,
      exp |-> claims.exp, iat |-> claims.iat, key |-> key ]

\* a string that is no JWT
Garbage == [ fmt |-> "garbage", sub |-> 0, role |-> "", exp |-> 0, iat |-> 0, key |-> "" ]

\* Auth::generate_token
generate_token(user_id, role, t) ==
    encode([sub |-> user_id, role |-> role, exp |-> t + ACCESS_TOKEN_HOURS, iat |-> t],
           JWT_SECRET)

\* jsonwebtoken's expiry check with validate_exp = true: a token is rejected
\* when exp < now - leeway. The leeway is 0 or 60 seconds with the version of
\* the crate, so on whole hours the token is rejected exactly when exp < now.
Expired(exp, t) == exp < t

\* Auth::validate_token: decode checks the format, then the signature, then
\* exp; Access and Refresh both set validate_exp = true. The result is "Ok"
\* (with the token's claims) or the kind of the error.
validate_token(token, token_type, t) ==
    IF token.fmt # "jwt" THEN "InvalidToken"
    ELSE IF token.key # JWT_SECRET THEN "InvalidSignature"
    ELSE IF Expired(token.exp, t) THEN "ExpiredSignature"
    ELSE "Ok"

\* the tokens a client can present: those issued to it, one it signed itself
\* with another key, and a string that is no token
ForgedAdmin == encode([sub |-> ADMIN_USER, role |-> ADMIN_ROLE, exp |-> ACCESS_TOKEN_HOURS,
                       iat |-> 0], "attacker-key")
Presentable == DOMAIN issued \cup {ForgedAdmin, Garbage}

\* an Authorization header: whether to_str() reads it, its scheme, its token
Header(readable, scheme, token) == [readable |-> readable, scheme |-> scheme, token |-> token]
Bearer(token) == Header(TRUE, "Bearer", token)

\* a request: its Authorization header and its auth_token cookie
Request(authorization, cookie) == [authorization |-> authorization, cookie |-> cookie]

Requests ==
    { Request(a, c) :
        a \in {None} \cup { Some(Bearer(k)) : k \in Presentable }
                     \cup { Some(Header(TRUE, "Basic", Garbage)),
                            Some(Header(FALSE, "Bearer", Garbage)) },
        c \in {None} \cup { Some(k) : k \in Presentable } }

\* the token a handler takes from the Authorization header, if any
BearerToken(req) ==
    IF /\ req.authorization # None
       /\ Unwrap(req.authorization).readable
       /\ Unwrap(req.authorization).scheme = "Bearer"
    THEN Some(Unwrap(req.authorization).token)
    ELSE None

\* mutants of AdminGuard::check: the cookie before the header; no role check
AdminGuardCookieFirst(req, t) ==
    IF req.cookie # None
    THEN /\ validate_token(Unwrap(req.cookie), "Access", t) = "Ok"
         /\ Unwrap(req.cookie).role = "admin"
    ELSE /\ BearerToken(req) # None
         /\ validate_token(Unwrap(BearerToken(req)), "Access", t) = "Ok"
         /\ Unwrap(BearerToken(req)).role = "admin"

AdminGuardAnyRole(req, t) ==
    IF BearerToken(req) # None
    THEN validate_token(Unwrap(BearerToken(req)), "Access", t) = "Ok"
    ELSE req.cookie # None /\ validate_token(Unwrap(req.cookie), "Access", t) = "Ok"

\* the role compared without validate_token; the cookie tried after a header
\* token that failed validation
AdminGuardNoValidation(req, t) ==
    IF BearerToken(req) # None
    THEN Unwrap(BearerToken(req)).role = "admin"
    ELSE req.cookie # None /\ Unwrap(req.cookie).role = "admin"

AdminGuardCookieFallback(req, t) ==
    \/ /\ BearerToken(req) # None
       /\ validate_token(Unwrap(BearerToken(req)), "Access", t) = "Ok"
       /\ Unwrap(BearerToken(req)).role = "admin"
    \/ /\ req.cookie # None
       /\ validate_token(Unwrap(req.cookie), "Access", t) = "Ok"
       /\ Unwrap(req.cookie).role = "admin"

\* AdminGuard::check
AdminGuardCheck(req, t) ==
    IF BearerToken(req) # None
    THEN LET token == Unwrap(BearerToken(req)) IN
         IF validate_token(token, "Access", t) = "Ok" THEN token.role = "admin" ELSE FALSE
    ELSE IF req.cookie # None /\ validate_token(Unwrap(req.cookie), "Access", t) = "Ok"
         THEN Unwrap(req.cookie).role = "admin"
         ELSE FALSE

\* the token_version of the account a token is issued for
EpochOf(user_id) ==
    IF user_id \in DOMAIN authentications THEN authentications[user_id].token_version ELSE 0

\* Cookie::build("auth_token", token) of login
AuthCookie(token) ==
    [ name |-> "auth_token", value |-> Some(token), path |-> "/", secure |-> TRUE,
      http_only |-> TRUE, same_site |-> "Strict", max_age |-> COOKIE_HOURS ]

\* Cookie::build("auth_token", "") of logout
ClearedCookie ==
    [ name |-> "auth_token", value |-> None, path |-> "/", secure |-> FALSE,
      http_only |-> FALSE, same_site |-> "", max_age |-> 0 ]

\* if req.username == "admin" && req.password == "password"
AcceptsAnyPassword(username, password) == username = "admin"
CredentialsAccepted(username, password) == username = "admin" /\ password = "password"

\* the AuthResponse of a handler that issued token to user_id with role
AuthResponse(op, status, username, token, refresh_token, cookie, user_id, role) ==
    [Response(op, status, "", username, Some(token), Some(refresh_token), cookie)
        EXCEPT !.user_id = user_id, !.role = role]

\* tokens the handlers have returned, with the token_version of the account
IssuedWith(token) ==
    IF token \in DOMAIN issued THEN issued ELSE (token :> EpochOf(token.sub)) @@ issued

\* Auth::login: the credentials are compared with a fixed pair; the
\* authentications table is not read. (generate_token fails only if the
\* claims cannot be serialised, which these cannot.)
login(username, password) ==
    /\ IF CredentialsAccepted(username, password)
       THEN LET token == generate_token(ADMIN_USER, ADMIN_ROLE, now)
                refresh_token == uuids + 1
            IN /\ uuids' = uuids + 1
               /\ issued' = IssuedWith(token)
               /\ refresh_tokens' = refresh_tokens \cup {refresh_token}
               /\ resp' = AuthResponse("login", 200, username, token, refresh_token,
                                       Some(AuthCookie(token)), ADMIN_USER, ADMIN_ROLE)
       ELSE /\ resp' = Response("login", 401, "invalid_credentials", username,
                                None, None, None)
            /\ UNCHANGED <<uuids, issued, refresh_tokens>>
    /\ request' = HttpRequest(None, None, Body(username, password, "", None, "", "", None))
    /\ admitted' = None
    /\ UNCHANGED logouts
    /\ last' = NoCall
    /\ UNCHANGED <<now, authentications, held, streak, consumed, failures, token_blacklist>>

\* a retain that keeps the entries expiring now; a sweep that empties the map
RetainsAtExpiry(blacklist, t) ==
    [ k \in { k \in DOMAIN blacklist : blacklist[k] >= t } |-> blacklist[k] ]

SweepsEverything(blacklist, t) == << >>

\* Auth::cleanup_blacklist: blacklist.retain(|_, exp| *exp > now)
cleanup_blacklist(blacklist, t) ==
    [ k \in { k \in DOMAIN blacklist : blacklist[k] > t } |-> blacklist[k] ]

\* blacklist.insert(token, Utc::now() + Duration::hours(24)), then the
\* occasional cleanup
BlacklistAfterLogout(blacklist, token, t) ==
    LET inserted == (token :> t + BLACKLIST_HOURS) @@ blacklist IN
    IF Cardinality(DOMAIN inserted) % CLEANUP_EVERY = 0
    THEN cleanup_blacklist(inserted, t)
    ELSE inserted

\* Auth::logout: the token is taken from a Bearer Authorization header only
logout(req) ==
    /\ token_blacklist' =
          IF BearerToken(req) # None
          THEN BlacklistAfterLogout(token_blacklist, Unwrap(BearerToken(req)), now)
          ELSE token_blacklist
    /\ resp' = [Response("logout", 200, "", "", None, None, Some(ClearedCookie))
                 EXCEPT !.message = "Successfully logged out"]
    /\ request' = HttpRequest(req.authorization, req.cookie, NoBody)
    /\ admitted' = None
    /\ UNCHANGED logouts
    /\ last' = NoCall
    /\ UNCHANGED <<now, uuids, authentications, held, streak, consumed, failures, issued,
                   refresh_tokens>>

\* Uuid::new_v4().to_string() as a user id: the k-th uuid drawn, never "1"
NewUserId(k) == ADMIN_USER + k
USER_ROLE == "user"

\* req.password != req.confirm_password, req.new_password != req.confirm_password
AlwaysMatch(password, confirm_password) == TRUE
PasswordsMatch(password, confirm_password) == password = confirm_password

\* ErrorResponse { error: "password_mismatch", message: "Passwords do not match" }
PasswordMismatch(op) ==
    [Response(op, 400, "password_mismatch", "", None, None, None)
        EXCEPT !.message = "Passwords do not match"]

\* Auth::register: no account is stored; a token with role "user" is issued
\* for a fresh user id
register(username, email, password, confirm_password) ==
    /\ IF ~PasswordsMatch(password, confirm_password)
       THEN /\ resp' = PasswordMismatch("register")
            /\ UNCHANGED <<uuids, issued, refresh_tokens>>
       ELSE LET user_id == NewUserId(uuids + 1)
                token == generate_token(user_id, USER_ROLE, now)
            IN /\ uuids' = uuids + 2
               /\ issued' = IssuedWith(token)
               /\ refresh_tokens' = refresh_tokens \cup {uuids + 2}
               /\ resp' = AuthResponse("register", 201, "", token, uuids + 2, None,
                                       user_id, USER_ROLE)
    /\ request' = HttpRequest(None, None,
                              Body(username, password, email, None, "", confirm_password, None))
    /\ admitted' = None
    /\ UNCHANGED logouts
    /\ last' = NoCall
    /\ UNCHANGED <<now, authentications, held, streak, consumed, failures, token_blacklist>>

\* a request to a route behind AdminGuard: the guard's check decides
guarded_request(req) ==
    /\ admitted' = Some(AdminGuardCheck(req, now))
    /\ UNCHANGED logouts
    /\ request' = HttpRequest(req.authorization, req.cookie, NoBody)
    /\ resp' = NoResp
    /\ last' = NoCall
    /\ UNCHANGED <<now, uuids, authentications, held, streak, consumed, failures, issued,
                   token_blacklist, refresh_tokens>>

\* the refresh tokens a client can present: those returned to it and a
\* value that is no uuid a handler has drawn
NeverIssued == 0
RefreshPresentable == refresh_tokens \cup {NeverIssued}

\* Auth::refresh_token: the body's refresh_token is not looked at
refresh_token(presented) ==
    LET token == generate_token(ADMIN_USER, ADMIN_ROLE, now) IN
    /\ uuids' = uuids + 1
    /\ issued' = IssuedWith(token)
    /\ refresh_tokens' = refresh_tokens \cup {uuids + 1}
    /\ resp' = AuthResponse("refresh_token", 200, "", token, uuids + 1, None,
                            ADMIN_USER, ADMIN_ROLE)
    /\ request' = HttpRequest(None, None, Body("", "", "", None, "", "", Some(presented)))
    /\ admitted' = None
    /\ UNCHANGED logouts
    /\ last' = NoCall
    /\ UNCHANGED <<now, authentications, held, streak, consumed, failures, token_blacklist>>

\* the body request_password_reset answers with
RESET_MESSAGE == "Password reset instructions sent to email if it exists in our system"
NotFoundForUnknown(email) ==
    IF email = "admin@example.com"
    THEN [Response("request_password_reset", 200, "", "", None, None, None)
             EXCEPT !.message = RESET_MESSAGE]
    ELSE [Response("request_password_reset", 404, "not_found", "", None, None, None)
             EXCEPT !.message = "No such account"]
PasswordResetResponse(email) ==
    [Response("request_password_reset", 200, "", "", None, None, None)
        EXCEPT !.message = RESET_MESSAGE]

\* Auth::request_password_reset: no account is looked up, no token generated
request_password_reset(email) ==
    /\ resp' = PasswordResetResponse(email)
    /\ request' = HttpRequest(None, None, Body("", "", email, None, "", "", None))
    /\ admitted' = None
    /\ UNCHANGED logouts
    /\ last' = NoCall
    /\ UNCHANGED <<now, uuids, authentications, held, streak, consumed, failures, issued,
                   token_blacklist, refresh_tokens>>

\* Auth::update_password: the passwords are compared; the token of the body
\* is not looked at and the credential store is not called
update_password(reset_token, new_password, confirm_password) ==
    /\ resp' = IF ~PasswordsMatch(new_password, confirm_password)
               THEN PasswordMismatch("update_password")
               ELSE [Response("update_password", 200, "", "", None, None, None)
                        EXCEPT !.message = "Password successfully updated"]
    /\ request' = HttpRequest(None, None,
                              Body("", "", "", reset_token, new_password, confirm_password, None))
    /\ admitted' = None
    /\ UNCHANGED logouts
    /\ last' = NoCall
    /\ UNCHANGED <<now, uuids, authentications, held, streak, consumed, failures, issued,
                   token_blacklist, refresh_tokens>>

\* a call of Auth::cleanup_blacklist on its own: the lock is taken, the map
\* swept at the current time, the lock released
sweep ==
    /\ token_blacklist' = cleanup_blacklist(token_blacklist, now)
    /\ last' = Call("cleanup_blacklist", Caller0, FALSE, TRUE, None, Some(token_blacklist))
    /\ NoHttp
    /\ UNCHANGED <<now, uuids, authentications, held, streak, consumed, failures, issued>>

\* Mutex<HashMap<..>>: free, or held by the guard of one call
Free == 0

\* the logout calls in progress: who holds the mutex, where each call is, the
\* request it was given, how many calls have begun, and every entry an
\* insert has written, with the expiry it wrote last
Logouts(mutex, pc, req, begun, inserted) ==
    [mutex |-> mutex, pc |-> pc, req |-> req, begun |-> begun, inserted |-> inserted]

NoLogouts ==
    Logouts(Free, [c \in Callers |-> "idle"], [c \in Callers |-> Request(None, None)],
            0, << >>)

\* drop(blacklist): the guard gives the mutex back
GuardKept(mutex) == mutex
drop(mutex) == Free

\* Auth::logout is called with req
logout_begin(c, req) ==
    /\ logouts.pc[c] = "idle"
    /\ logouts' = [logouts EXCEPT !.pc[c] = IF BearerToken(req) # None THEN "lock"
                                             ELSE "respond",
                                   !.req[c] = req,
                                   !.begun = @ + 1]
    /\ UNCHANGED <<now, uuids, storeVars, issued, token_blacklist, resp, request, admitted,
                   refresh_tokens>>

\* self.token_blacklist.lock().unwrap(): waits until the mutex is free
logout_lock(c) ==
    /\ logouts.pc[c] = "lock"
    /\ logouts.mutex = Free
    /\ logouts' = [logouts EXCEPT !.mutex = c, !.pc[c] = "insert"]
    /\ UNCHANGED <<now, uuids, storeVars, issued, token_blacklist, resp, request, admitted,
                   refresh_tokens>>

\* blacklist.insert(token, now + 24 h); if blacklist.len() % 100 == 0 the
\* guard is dropped and cleanup_blacklist is called; otherwise the guard goes
\* out of scope
logout_insert(c) ==
    /\ logouts.pc[c] = "insert"
    /\ LET token    == Unwrap(BearerToken(logouts.req[c]))
           inserted == (token :> now + BLACKLIST_HOURS) @@ token_blacklist
           cleanup  == Cardinality(DOMAIN inserted) % CLEANUP_EVERY = 0
       IN /\ token_blacklist' = inserted
          /\ logouts' = [logouts EXCEPT
                            !.mutex = IF cleanup THEN drop(@) ELSE Free,
                            !.pc[c] = IF cleanup THEN "cleanup_lock" ELSE "respond",
                            !.inserted = (token :> now + BLACKLIST_HOURS) @@ @]
    /\ UNCHANGED <<now, uuids, storeVars, issued, resp, request, admitted, refresh_tokens>>

\* cleanup_blacklist: self.token_blacklist.lock().unwrap()
cleanup_lock(c) ==
    /\ logouts.pc[c] = "cleanup_lock"
    /\ logouts.mutex = Free
    /\ logouts' = [logouts EXCEPT !.mutex = c, !.pc[c] = "cleanup_retain"]
    /\ UNCHANGED <<now, uuids, storeVars, issued, token_blacklist, resp, request, admitted,
                   refresh_tokens>>

\* cleanup_blacklist: the retain, then the guard goes out of scope
cleanup_retain(c) ==
    /\ logouts.pc[c] = "cleanup_retain"
    /\ token_blacklist' = cleanup_blacklist(token_blacklist, now)
    /\ logouts' = [logouts EXCEPT !.mutex = Free, !.pc[c] = "respond"]
    /\ UNCHANGED <<now, uuids, storeVars, issued, resp, request, admitted, refresh_tokens>>

\* the cookie is cleared and the call answers 200
logout_respond(c) ==
    /\ logouts.pc[c] = "respond"
    /\ resp' = [Response("logout", 200, "", "", None, None, Some(ClearedCookie))
                 EXCEPT !.message = "Successfully logged out"]
    /\ request' = HttpRequest(logouts.req[c].authorization, logouts.req[c].cookie, NoBody)
    /\ admitted' = None
    /\ last' = NoCall
    /\ logouts' = [logouts EXCEPT !.pc[c] = "idle"]
    /\ UNCHANGED <<now, uuids, authentications, held, streak, consumed, failures, issued,
                   token_blacklist, refresh_tokens>>

\* the steps of a call that has begun
LogoutStep(c) ==
    \/ logout_lock(c)
    \/ logout_insert(c)
    \/ cleanup_lock(c)
    \/ cleanup_retain(c)
    \/ logout_respond(c)

\* time passes
Tick ==
    /\ now' = now + 1
    /\ last' = Call("tick", 0, FALSE, TRUE, None, None)
    /\ NoHttp
    /\ UNCHANGED <<authentications, held, uuids, streak, consumed, failures, issued, token_blacklist>>

----------------------------------------------------------------------------
Init ==
    /\ now = 0
    /\ authentications = << >>
    /\ held = << >>
    /\ uuids = 0
    /\ last = NoCall
    /\ streak = NoStreak
    /\ consumed = {}
    /\ failures = 0
    /\ issued = << >>
    /\ token_blacklist = << >>
    /\ resp = NoResp
    /\ request = NoRequest
    /\ admitted = None
    /\ refresh_tokens = {}
    /\ logouts = NoLogouts

Version(id) == authentications[id].token_version

\* the credential store used by one caller that keeps the value each call returns
NextCred ==
    \/ \E p \in Passwords : create(Caller0, 1, p)
    \/ \E s \in BOOLEAN :
          /\ s \/ (/\ Caller0 \in DOMAIN held
                   /\ held[Caller0].failed_attempts < MaxFailed
                   /\ failures < MaxFailed)
          /\ record_login_attempt(Caller0, s)
    \/ \E u \in UpdateInputsOf({"password", "is_locked", "failed_attempts"}, now) :
          update(Caller0, u)
    \/ uuids < MaxUuidsCred /\ generate_reset_token(Caller0)
    \/ clear_reset_token(Caller0)
    \/ (1 \in DOMAIN authentications /\ Version(1) < MaxVersionCred)
          /\ increment_token_version(Caller0)
    \/ now < MaxNowCred /\ Tick

SpecCred == Init /\ [][NextCred]_vars

\* the reset token over its 24 hours
NextReset ==
    \/ create(Caller0, 1, "password")
    \/ \E u \in UpdateInputsOf({"reset_token", "reset_token_expires"}, now) :
          update(Caller0, u)
    \/ uuids < MaxUuidsReset /\ generate_reset_token(Caller0)
    \/ clear_reset_token(Caller0)
    \/ \E k \in 0 .. MaxUuidsReset : find_by_reset_token(Caller0, k)
    \/ now < MaxNowReset /\ Tick

SpecReset == Init /\ [][NextReset]_vars

\* concurrent requests for one account: each reads the row, then records its
\* login attempt on the value it read or on the value its last call returned
NextRace ==
    \/ create(Caller0, 1, "password")
    \/ \E c \in Callers : find_by_user_id(c, 1)
    \/ \E c \in Callers, s \in BOOLEAN :
          /\ s \/ (/\ c \in DOMAIN held
                   /\ held[c].failed_attempts < MaxFailed
                   /\ failures < MaxFailed)
          /\ record_login_attempt(c, s)

SpecRace == Init /\ [][NextRace]_vars

\* sessions: login, logout and token validation beside the credential store
NextAuth ==
    \/ create(Caller0, ADMIN_USER, "password")
    \/ \E s \in BOOLEAN :
          /\ s \/ (/\ Caller0 \in DOMAIN held
                   /\ held[Caller0].failed_attempts < MaxFailed
                   /\ failures < MaxFailed)
          /\ record_login_attempt(Caller0, s)
    \/ (ADMIN_USER \in DOMAIN authentications /\ Version(ADMIN_USER) < MaxVersionAuth)
          /\ increment_token_version(Caller0)
    \/ \E u \in {"admin", "guest"}, p \in {"password", "wrong"} :
          /\ (u = "admin" /\ p = "password") => uuids < MaxUuidsAuth
          /\ login(u, p)
    \/ \E req \in Requests :
          /\ Cardinality(DOMAIN token_blacklist) < MaxBlacklist
          /\ logout(req)
    \/ \E presented \in RefreshPresentable :
          /\ uuids < MaxUuidsAuth
          /\ refresh_token(presented)
    \/ now < MaxNowAuth /\ Tick

SpecAuth == Init /\ [][NextAuth]_vars

\* the guard on requests carrying the tokens login and register have issued
NextGuard ==
    \/ \E u \in {"admin", "guest"}, p \in {"password", "wrong"} :
          /\ CredentialsAccepted(u, p) => uuids < MaxUuidsGuard
          /\ login(u, p)
    \/ \E p \in {"password", "wrong"} :
          /\ PasswordsMatch(p, "password") => uuids + 1 < MaxUuidsGuard
          /\ register("guest", "guest@example.com", p, "password")
    \/ \E req \in Requests : guarded_request(req)
    \/ now < MaxNowGuard /\ Tick

SpecGuard == Init /\ [][NextGuard]_vars

\* the blacklist over a day: logins, logouts with a Bearer header and sweeps
NextSweep ==
    \/ (uuids < MaxUuidsSweep /\ now <= MaxActiveHour) /\ login("admin", "password")
    \/ \E k \in DOMAIN issued \cup {Garbage} :
          /\ now <= MaxActiveHour
          /\ Cardinality(DOMAIN token_blacklist \cup {k}) <= MaxBlacklistSweep
          /\ logout(Request(Some(Bearer(k)), None))
    \/ sweep
    \/ now < MaxNowSweep /\ Tick

SpecSweep == Init /\ [][NextSweep]_vars

\* the i-th of the strings earlier logouts were given as tokens
Junk(i) == [Garbage EXCEPT !.sub = i]

\* the blacklist after n earlier logouts, every second one of them at hour
\* 0 and the others just before hour t
EarlierLogouts(n, t) ==
    [ k \in { Junk(i) : i \in 1 .. n } |->
        IF k.sub % 2 = 0 THEN 0 + BLACKLIST_HOURS ELSE t - 1 + BLACKLIST_HOURS ]

\* concurrent logout calls start a day after the first logouts, on a
\* blacklist that is a few entries short of the next cleanup
InitLock ==
    /\ now = BLACKLIST_HOURS
    /\ authentications = << >>
    /\ held = << >>
    /\ uuids = 0
    /\ last = NoCall
    /\ streak = NoStreak
    /\ consumed = {}
    /\ failures = 0
    /\ issued = << >>
    /\ \E n \in CLEANUP_EVERY - NumCallers .. CLEANUP_EVERY - 1 :
          /\ token_blacklist = EarlierLogouts(n, now)
          /\ logouts = [NoLogouts EXCEPT !.inserted = EarlierLogouts(n, now)]
    /\ resp = NoResp
    /\ request = NoRequest
    /\ admitted = None
    /\ refresh_tokens = {}

\* concurrent logout calls, step by step
NextLock ==
    \/ \E c \in Callers, req \in { Request(None, None),
                                  Request(Some(Bearer(Garbage)), None),
                                  Request(Some(Bearer(ForgedAdmin)), None) } :
          /\ logouts.begun < MaxLogouts
          /\ logout_begin(c, req)
    \/ \E c \in Callers : logout_lock(c)
    \/ \E c \in Callers : logout_insert(c)
    \/ \E c \in Callers : cleanup_lock(c)
    \/ \E c \in Callers : cleanup_retain(c)
    \/ \E c \in Callers : logout_respond(c)

\* every call that has begun is scheduled again and again
SpecLock ==
    /\ InitLock
    /\ [][NextLock]_vars
    /\ \A c \in Callers : WF_vars(LogoutStep(c))

\* the emails of a password reset request: the one of the stored account's
\* owner and one no account has
Emails == {"admin@example.com", "nobody@example.com"}

\* password reset over HTTP beside the credential store and the blacklist
NextPwd ==
    \/ create(Caller0, ADMIN_USER, "password")
    \/ uuids < MaxUuidsPwd /\ generate_reset_token(Caller0)
    \/ \E k \in {ForgedAdmin, Garbage} :
          /\ Cardinality(DOMAIN token_blacklist) < MaxBlacklist
          /\ logout(Request(Some(Bearer(k)), None))
    \/ \E email \in Emails : request_password_reset(email)
    \/ \E k \in 0 .. MaxUuidsPwd, p \in Passwords, c \in Passwords :
          update_password(Some(k), p, c)
    \/ now < MaxNowPwd /\ Tick

SpecPwd == Init /\ [][NextPwd]_vars

----------------------------------------------------------------------------
(* Lockout *)

\* C1: after five consecutive failed record_login_attempt calls, each applied
\* to the value the previous call returned and the first to a credential with
\* failed_attempts = 0 and is_locked = false, the account is locked; after
\* one to four such calls it is not.
C1_FiveFailuresLock ==
    streak.n > 0 =>
        LET row == authentications[held[streak.by].user_id] IN
        /\ streak.n >= MAX_FAILED_ATTEMPTS => row.is_locked
        /\ streak.n < MAX_FAILED_ATTEMPTS => ~row.is_locked

\* the fifth failed call of a run has just returned
C1_Witness ==
    /\ streak.n = MAX_FAILED_ATTEMPTS
    /\ last.op = "record_login_attempt" /\ ~last.success
    /\ last.pre = Some([is_locked |-> FALSE, failed_attempts |-> MAX_FAILED_ATTEMPTS - 1])
    /\ authentications[held[streak.by].user_id].is_locked

\* C4: a successful record_login_attempt leaves the row, and the value it
\* returns, with failed_attempts = 0, is_locked = false and last_login = now,
\* whatever the lockout state was before.
C4_SuccessResets ==
    (last.op = "record_login_attempt" /\ last.success) =>
        LET row == authentications[held[last.caller].user_id] IN
        /\ row.failed_attempts = 0
        /\ ~row.is_locked
        /\ row.last_login = Some(now)
        /\ held[last.caller] = Self(row)

\* a successful call on a locked row with five or more failures
C4_Witness ==
    /\ last.op = "record_login_attempt" /\ last.success
    /\ last.pre # None
    /\ Unwrap(last.pre).is_locked
    /\ Unwrap(last.pre).failed_attempts >= MAX_FAILED_ATTEMPTS
    /\ ~authentications[held[last.caller].user_id].is_locked

\* C9: in every state of the table, a row is locked exactly when its
\* failed_attempts is at least MAX_FAILED_ATTEMPTS.
C9_LockedIffThreshold ==
    \A id \in DOMAIN authentications :
        authentications[id].is_locked <=>
            authentications[id].failed_attempts >= MAX_FAILED_ATTEMPTS

\* C10: a step changes is_locked of an existing row only if it is a
\* record_login_attempt call.
C10_OnlyRecordLoginAttempt ==
    [][ \A id \in DOMAIN authentications :
          (id \in DOMAIN authentications'
             /\ authentications'[id].is_locked # authentications[id].is_locked)
          => last'.op = "record_login_attempt" ]_vars

\* C2: under concurrent callers every failed record_login_attempt raises the
\* stored failed_attempts by one, so the stored count is the number of failed
\* attempts completed since the last successful login, and the account is
\* locked once that number is MAX_FAILED_ATTEMPTS.
C2_NoLostUpdate ==
    \A id \in DOMAIN authentications :
        /\ authentications[id].failed_attempts = failures
        /\ failures >= MAX_FAILED_ATTEMPTS => authentications[id].is_locked

----------------------------------------------------------------------------
(* Reset token *)

\* C8: a reset token value that a lookup has found once is not found by any
\* later lookup.
C8_ConsumedOnce ==
    ~(last.op = "find_by_reset_token" /\ last.ok /\ last.seen)

----------------------------------------------------------------------------
(* Sessions *)

\* C3: a login for an account that is locked is answered with AccountLocked
\* and carries no token, whatever the password.
C3_LockedLoginRejected ==
    ( /\ resp.op = "login" /\ resp.username = "admin"
      /\ ADMIN_USER \in DOMAIN authentications
      /\ is_account_locked(authentications[ADMIN_USER]) )
    => (resp.error = "account_locked" /\ resp.token = None /\ resp.cookie = None)

\* C5: a token recorded in the blacklist that has a valid signature and has
\* not expired fails validation with TokenRevoked, and the guard denies a
\* request that carries it.
C5_RevokedTokenRejected ==
    \A token \in DOMAIN token_blacklist :
        (token.fmt = "jwt" /\ token.key = JWT_SECRET /\ now < token.exp) =>
            /\ validate_token(token, "Access", now) = "TokenRevoked"
            /\ ~AdminGuardCheck(Request(Some(Bearer(token)), None), now)

\* C6: a token issued under a token_version lower than its account's current
\* one fails validation with EpochMismatch.
C6_OldEpochRejected ==
    \A token \in DOMAIN issued :
        issued[token] < EpochOf(token.sub) =>
            validate_token(token, "Access", now) = "EpochMismatch"

\* C7: an issued token validates at every time before its exp and fails
\* validation at every time from exp on.
C7_ExpiredFromExp ==
    \A token \in DOMAIN issued :
        /\ token.exp = token.iat + ACCESS_TOKEN_HOURS
        /\ now < token.exp => validate_token(token, "Access", now) = "Ok"
        /\ now >= token.exp => validate_token(token, "Access", now) # "Ok"

-----------------------------------------------------------------------------
(* Login *)

\* C11: POST /auth/login answers 200 with an access token, a refresh token
\* and an HTTP-only, secure, same-site-strict auth_token cookie exactly when
\* the credentials are accepted; every other login is answered 401 with no
\* token and no cookie.
C11_LoginSuccessIffAccepted ==
    resp.op = "login" =>
        LET accepted == request.body.username = "admin" /\ request.body.password = "password"
            success  == /\ resp.status = 200
                        /\ IsSome(resp.token)
                        /\ IsSome(resp.refresh_token)
                        /\ IsSome(resp.cookie)
                        /\ Unwrap(resp.cookie).name = "auth_token"
                        /\ Unwrap(resp.cookie).value = resp.token
                        /\ Unwrap(resp.cookie).http_only
                        /\ Unwrap(resp.cookie).secure
                        /\ Unwrap(resp.cookie).same_site = "Strict"
            refused  == /\ resp.status = 401
                        /\ resp.token = None
                        /\ resp.refresh_token = None
                        /\ resp.cookie = None
        IN IF accepted THEN success ELSE refused

\* a login with the accepted user name and a wrong password was refused
\* after a login with the accepted pair had been answered with a token
C11_Witness ==
    /\ resp.op = "login"
    /\ request.body.username = "admin" /\ request.body.password = "wrong"
    /\ resp.status = 401
    /\ refresh_tokens # {}

-----------------------------------------------------------------------------
(* Access guard *)

\* C12: the guard decides on the token of the Authorization header when the
\* request has one, whatever the cookie holds; a request without an
\* Authorization header is decided on the token of its auth_token cookie; a
\* request with neither is denied.
C12_HeaderThenCookie ==
    admitted # None =>
        LET Admits(token) == validate_token(token, "Access", now) = "Ok" /\ token.role = "admin"
            header == request.authorization
            cookie == request.cookie
        IN /\ (header # None /\ Unwrap(header).readable /\ Unwrap(header).scheme = "Bearer")
                => Unwrap(admitted) = Admits(Unwrap(header).token)
           /\ (header = None /\ cookie # None) => Unwrap(admitted) = Admits(Unwrap(cookie))
           /\ (header = None /\ cookie = None) => Unwrap(admitted) = FALSE

\* a request with an admin's token in the header and a string that is no
\* token in the cookie was admitted
C12_Witness ==
    /\ admitted = Some(TRUE)
    /\ request.authorization # None
    /\ request.cookie = Some(Garbage)

\* C13: the guard denies every request whose token has a role other than
\* admin, also when the token validates; every request it admits presented a
\* token whose role is admin.
C13_OnlyAdminRole ==
    admitted # None =>
        LET header == BearerToken(request)
            taken  == IF header # None THEN header ELSE request.cookie
        IN /\ (taken # None /\ Unwrap(taken).role # "admin") => admitted = Some(FALSE)
           /\ admitted = Some(TRUE) => (taken # None /\ Unwrap(taken).role = "admin")

\* a request with a token register issued, still valid, was denied
C13_Witness ==
    /\ admitted = Some(FALSE)
    /\ BearerToken(request) # None
    /\ Unwrap(BearerToken(request)) \in DOMAIN issued
    /\ Unwrap(BearerToken(request)).role = USER_ROLE
    /\ validate_token(Unwrap(BearerToken(request)), "Access", now) = "Ok"

-----------------------------------------------------------------------------
(* Logout *)

\* C14: after a logout on a request that presents an issued access token in
\* the Authorization header or, without such a header, in the auth_token
\* cookie, that token is in the blacklist.
C14_LogoutRecordsToken ==
    resp.op = "logout" =>
        LET header    == BearerToken(request)
            presented == IF header # None THEN header ELSE request.cookie
        IN (presented # None /\ Unwrap(presented) \in DOMAIN issued)
              => Unwrap(presented) \in DOMAIN token_blacklist

\* C15: the blacklist entry logout records for a token expires at the
\* token's own exp.
C15_EntryExpiresWithToken ==
    (resp.op = "logout" /\ BearerToken(request) # None)
        => LET token == Unwrap(BearerToken(request)) IN
           /\ token \in DOMAIN token_blacklist
           /\ token \in DOMAIN issued => token_blacklist[token] = token.exp

-----------------------------------------------------------------------------
(* Refresh *)

\* C16: POST /auth/refresh answers with an access token only when the
\* refresh token of the request is one a handler returned earlier.
C16_RefreshNeedsIssuedToken ==
    (resp.op = "refresh_token" /\ IsSome(resp.token))
        => Unwrap(request.body.refresh_token) \in refresh_tokens \ {Unwrap(resp.refresh_token)}

-----------------------------------------------------------------------------
(* Password reset over HTTP *)

\* C17: a password update with matching passwords succeeds only when the
\* token of the request is the unexpired reset token of an account, and a
\* successful update leaves that account with the hash of the new password,
\* without the reset token and with token_version increased by one.
C17_UpdateNeedsValidToken ==
    [][ (resp'.op = "update_password" /\ resp'.status = 200)
          => \E id \in ResetTokenRows(Unwrap(request'.body.token), now) :
                /\ authentications'[id].password_hash = bcrypt_hash(request'.body.new_password)
                /\ authentications'[id].reset_token = None
                /\ authentications'[id].token_version = authentications[id].token_version + 1
      ]_vars

\* C18: a password update whose new_password differs from confirm_password
\* is answered 400 and changes neither the authentications table nor the
\* blacklist.
C18_MismatchChangesNothing ==
    [][ (/\ resp'.op = "update_password"
         /\ request'.body.new_password # request'.body.confirm_password)
          => /\ resp'.status = 400
             /\ resp'.error = "password_mismatch"
             /\ UNCHANGED <<authentications, token_blacklist>>
      ]_vars

\* an update with the account's valid reset token and two different
\* passwords was answered 400, the blacklist holding an entry
C18_Witness ==
    /\ resp.op = "update_password" /\ resp.status = 400
    /\ request.body.new_password # request.body.confirm_password
    /\ ResetTokenRows(Unwrap(request.body.token), now) # {}
    /\ DOMAIN token_blacklist # {}

\* C19: a password reset request is answered 200 with one fixed message and
\* nothing else, whatever its email and whatever accounts exist.
C19_SameAnswerForEveryEmail ==
    resp.op = "request_password_reset" =>
        resp = [NoResp EXCEPT !.op = "request_password_reset", !.status = 200,
                              !.message = RESET_MESSAGE]

\* a reset was requested for an email no account has, an account existing
C19_Witness ==
    /\ resp.op = "request_password_reset"
    /\ request.body.email = "nobody@example.com"
    /\ ADMIN_USER \in DOMAIN authentications

-----------------------------------------------------------------------------
(* One reset token per account *)

\* C20: when generate_reset_token has returned, the account's row holds the
\* token just returned with expiry 24 hours from now, and no token an
\* earlier call returned is found by find_by_reset_token, then or later.
C20_OnlyLatestResetToken ==
    /\ last.op = "generate_reset_token" =>
          LET row == authentications[held[last.caller].user_id] IN
          /\ row.reset_token = last.tok
          /\ row.reset_token_expires = Some(now + RESET_TOKEN_HOURS)
          /\ ResetTokenRows(Unwrap(last.tok), now) = {held[last.caller].user_id}
    /\ \A earlier \in 1 .. uuids - 1 : ResetTokenRows(earlier, now) = {}

\* the second call has returned while the token of the first call had not
\* yet expired
C20_Witness ==
    /\ last.op = "generate_reset_token"
    /\ last.tok = Some(2)
    /\ now < RESET_TOKEN_HOURS
    /\ authentications[held[last.caller].user_id].reset_token = Some(2)

-----------------------------------------------------------------------------
(* Reset fields *)

\* C21: in every row of the authentications table reset_token and
\* reset_token_expires are both present or both absent.
C21_ResetFieldsTogether ==
    \A id \in DOMAIN authentications :
        (authentications[id].reset_token = None)
            <=> (authentications[id].reset_token_expires = None)

-----------------------------------------------------------------------------
(* Access guard: failed validation *)

\* C22: a request whose token (the header's Bearer token, else the cookie's)
\* fails validation as malformed, wrongly signed or expired is denied, also
\* when the token's role is admin.
C22_InvalidTokenDenied ==
    admitted # None =>
        LET header == BearerToken(request)
            taken  == IF header # None THEN header ELSE request.cookie
        IN (taken # None /\ validate_token(Unwrap(taken), "Access", now) # "Ok")
              => admitted = Some(FALSE)

\* a request with an admin token login issued, expired by now, was denied
C22_Witness ==
    /\ admitted = Some(FALSE)
    /\ BearerToken(request) # None
    /\ Unwrap(BearerToken(request)) \in DOMAIN issued
    /\ Unwrap(BearerToken(request)).role = ADMIN_ROLE
    /\ validate_token(Unwrap(BearerToken(request)), "Access", now) = "ExpiredSignature"

\* C28: a request whose Authorization header holds a Bearer token that fails
\* validation is denied whatever its cookie holds; the cookie decides only
\* when the header is missing, unreadable or not a Bearer header.
C28_HeaderFailureIsFinal ==
    admitted # None =>
        LET header == request.authorization
            bearer == header # None /\ Unwrap(header).readable
                                    /\ Unwrap(header).scheme = "Bearer"
            CookieAdmits == /\ request.cookie # None
                            /\ validate_token(Unwrap(request.cookie), "Access", now) = "Ok"
                            /\ Unwrap(request.cookie).role = "admin"
        IN /\ (bearer /\ validate_token(Unwrap(header).token, "Access", now) # "Ok")
                => admitted = Some(FALSE)
           /\ bearer => admitted = Some(/\ validate_token(Unwrap(header).token, "Access", now) = "Ok"
                                         /\ Unwrap(header).token.role = "admin")
           /\ ~bearer => admitted = Some(CookieAdmits)

\* a request with a wrongly signed Bearer token in the header and a valid
\* admin token in the cookie was denied
C28_Witness ==
    /\ admitted = Some(FALSE)
    /\ request.authorization = Some(Bearer(ForgedAdmin))
    /\ request.cookie # None
    /\ Unwrap(request.cookie) \in DOMAIN issued
    /\ Unwrap(request.cookie).role = ADMIN_ROLE
    /\ validate_token(Unwrap(request.cookie), "Access", now) = "Ok"

-----------------------------------------------------------------------------
(* Lockout: failed attempts on a locked or locking account *)

\* C23: a failed record_login_attempt on a locked account leaves it locked,
\* also when the caller's value was read before the account was locked.
C23_FailureNeverUnlocks ==
    (/\ last.op = "record_login_attempt"
     /\ ~last.success
     /\ Unwrap(last.pre).is_locked)
        => authentications[held[last.caller].user_id].is_locked

\* C24: a failed record_login_attempt that locks an unlocked account leaves
\* its failed_attempts at 0.
C24_LockResetsCount ==
    (/\ last.op = "record_login_attempt"
     /\ ~last.success
     /\ ~Unwrap(last.pre).is_locked
     /\ authentications[held[last.caller].user_id].is_locked)
        => authentications[held[last.caller].user_id].failed_attempts = 0

-----------------------------------------------------------------------------
(* Lookup by reset token *)

\* C25: find_by_reset_token fails when no row holds the token and when the
\* row that holds it has an expiry at or before now; it succeeds only for a
\* token some row holds with an expiry after now.
C25_LookupFailsUnlessValid ==
    last.op = "find_by_reset_token" =>
        LET holders == { id \in DOMAIN authentications :
                            authentications[id].reset_token = last.tok }
        IN /\ holders = {} => ~last.ok
           /\ (\A id \in holders :
                  \/ authentications[id].reset_token_expires = None
                  \/ Unwrap(authentications[id].reset_token_expires) <= now) => ~last.ok
           /\ last.ok => \E id \in holders :
                            /\ authentications[id].reset_token_expires # None
                            /\ Unwrap(authentications[id].reset_token_expires) > now

\* a lookup of a generated token at the hour of its expiry has failed
C25_Witness ==
    /\ last.op = "find_by_reset_token"
    /\ ~last.ok
    /\ Unwrap(last.tok) \in 1 .. uuids
    /\ \E id \in DOMAIN authentications :
          /\ authentications[id].reset_token = last.tok
          /\ authentications[id].reset_token_expires = Some(now)

-----------------------------------------------------------------------------
(* Sweep of the blacklist *)

\* C26: cleanup_blacklist leaves exactly the entries that expire after now,
\* each with the expiry it had, and removes every entry that expires at or
\* before now.
C26_SweepRemovesExactlyExpired ==
    last.op = "cleanup_blacklist" =>
        LET before == Unwrap(last.pre) IN
        /\ DOMAIN token_blacklist = { k \in DOMAIN before : before[k] > now }
        /\ \A k \in DOMAIN before : before[k] <= now => k \notin DOMAIN token_blacklist
        /\ \A k \in DOMAIN token_blacklist : token_blacklist[k] = before[k]

\* a sweep removed an entry expiring at this hour and kept a later one
C26_Witness ==
    /\ last.op = "cleanup_blacklist"
    /\ \E k \in DOMAIN Unwrap(last.pre) :
          Unwrap(last.pre)[k] = now /\ k \notin DOMAIN token_blacklist
    /\ \E k \in DOMAIN token_blacklist : token_blacklist[k] > now

\* C27: no step removes a blacklist entry whose token still validates;
\* logout records its token with expiry now + 24 hours; an issued token
\* expires one hour after it was issued.
C27_NoEarlyRemoval ==
    [][ /\ \A k \in DOMAIN token_blacklist \ DOMAIN token_blacklist' :
              /\ validate_token(k, "Access", now') # "Ok"
              /\ token_blacklist[k] <= now'
        /\ (resp'.op = "logout" /\ BearerToken(request') # None)
              => /\ Unwrap(BearerToken(request')) \in DOMAIN token_blacklist'
                 /\ token_blacklist'[Unwrap(BearerToken(request'))] = now' + BLACKLIST_HOURS
        /\ \A k \in DOMAIN issued' : k.exp = k.iat + ACCESS_TOKEN_HOURS
      ]_vars

\* a sweep has removed the entry of a token login issued
C27_Witness ==
    /\ last.op = "cleanup_blacklist"
    /\ \E k \in DOMAIN Unwrap(last.pre) :
          /\ k \in DOMAIN issued
          /\ k \notin DOMAIN token_blacklist

-----------------------------------------------------------------------------
(* Frame of the store operations *)

-----------------------------------------------------------------------------
(* Concurrent logouts *)

\* C29: under every interleaving of concurrent logout calls each call that
\* has begun answers, and every entry an insert has written is in the
\* blacklist with the expiry written, unless that expiry has passed.
C29_LogoutCompletes ==
    /\ [](\A k \in DOMAIN logouts.inserted :
             \/ k \in DOMAIN token_blacklist /\ token_blacklist[k] = logouts.inserted[k]
             \/ logouts.inserted[k] <= now)
    /\ \A c \in Callers : (logouts.pc[c] # "idle") ~> (logouts.pc[c] = "idle")

\* a call has dropped its guard and waits to lock the mutex for the cleanup
\* while another call holds the mutex for its insert
C29_Witness ==
    \E c \in Callers :
        /\ logouts.pc[c] = "cleanup_lock"
        /\ logouts.mutex \in Callers \ {c}
        /\ logouts.pc[logouts.mutex] = "insert"

====
